---- MODULE Spec2Model ----
(***************************************************************************)
(* Registration lifecycle and scheduler sweeps of the guest-pass bot.      *)
(*                                                                         *)
(* State: the registrations table, the wall clock (whole hours, naive UTC  *)
(* as datetime.utcnow() returns it), the submissions awaited by the        *)
(* command handlers, and the position of each of the two scheduler jobs.   *)
(* Only the columns the lifecycle logic reads or writes are kept; guest    *)
(* and vehicle columns are never read by any decision and are left out.    *)
(* The repository and the service are modelled by what their methods do;   *)
(* the way the service constructs its repository is not part of the model. *)
(***************************************************************************)
EXTENDS Integers, Sequences, FiniteSets, TLC

\* ---------------------------------------------------------------- bounds
MaxTicks == 4
MaxCount == 2
MaxTzOffset == 1
\* Largest window, in hours, either job is configured with.
MaxWindow == 3

\* ------------------------------------------------------ program constants
ValidityHours == 24
NotificationWindowHours == 2
AutoReregisterWindowHours == 2
AutoReregisterIntervalHours == 22

\* Two registrations, the first taken in by u1 and the second by u2: enough
\* for a sweep in which one candidate fails and another does not.
Ids == {1, 2}
Users == {"u1", "u2"}
IntakeUser(id) == IF id = 1 THEN "u1" ELSE "u2"

\* The clock is sampled at start-up and then hourly from the first run of
\* the 22-hour job on.
LongStep == ValidityHours - AutoReregisterWindowHours
TzOffsets == (0 - MaxTzOffset)..MaxTzOffset

\* Values of NOTIFICATION_HOURS_BEFORE_EXPIRY and of
\* AUTO_REREGISTER_HOURS_BEFORE_EXPIRY.
Windows == 1..MaxWindow

\* Optional[...] values: None is the empty sequence, a value is a
\* one-element sequence.
None == <<>>
Some(v) == <<v>>
Val(o) == o[1]

RECURSIVE SetToSortedSeq(_)
SetToSortedSeq(S) ==
  IF S = {} THEN <<>>
  ELSE LET m == CHOOSE x \in S : \A y \in S : x <= y
       IN <<m>> \o SetToSortedSeq(S \ {m})

\* ------------------------------------------------------------- the table
\* Column defaults of registrations_table for a freshly inserted row.
NewRow(u) ==
  [discord_user_id |-> u,
   last_submitted_at |-> None,
   expires_at |-> None,
   submission_count |-> 0,
   auto_reregister |-> FALSE,
   is_active |-> FALSE]

\* Registration.from_row: the DTO is a copy of the row plus its id.
from_row(id, row) ==
  [id |-> id,
   discord_user_id |-> row.discord_user_id,
   last_submitted_at |-> row.last_submitted_at,
   expires_at |-> row.expires_at,
   submission_count |-> row.submission_count,
   auto_reregister |-> row.auto_reregister,
   is_active |-> row.is_active]

\* Registration.is_expiring_soon, read at time nowv.
is_expiring_soon(reg, nowv) ==
  IF reg.expires_at = None THEN FALSE
  ELSE LET hours_until_expiry == Val(reg.expires_at) - nowv
       IN 0 < hours_until_expiry /\ hours_until_expiry <= NotificationWindowHours

\* Registration.is_expired, read at time nowv.  The module imports the
\* class (`from datetime import datetime`), so `datetime.timezone` in
\* `datetime.now(datetime.timezone.utc)` is an attribute lookup on the class
\* and raises AttributeError: the property returns only on its first
\* branch.
is_expired(reg, nowv) ==
  IF reg.expires_at = None
  THEN [raised |-> FALSE, value |-> TRUE]
  ELSE [raised |-> TRUE, value |-> FALSE]

\* ------------------------------------------------------------ repository
get_by_id(s, id) ==
  IF id \in DOMAIN s THEN Some(from_row(id, s[id])) ELSE None

\* update_submission with `expires_at` left out of the values.
update_submission_drops_expiry(s, id, last, exp) ==
  [i \in DOMAIN s |->
     IF i = id
     THEN [s[i] EXCEPT !.last_submitted_at = Some(last),
                       !.submission_count = @ + 1]
     ELSE s[i]]

\* update_submission with `submission_count + 1` left out of the values.
update_submission_no_increment(s, id, last, exp) ==
  [i \in DOMAIN s |->
     IF i = id
     THEN [s[i] EXCEPT !.last_submitted_at = Some(last),
                       !.expires_at = Some(exp)]
     ELSE s[i]]

\* update_submission as an upsert: a missing id gets a fresh row.
update_submission_upserts(s, id, last, exp) ==
  [i \in (DOMAIN s) \cup {id} |->
     IF i = id
     THEN [(IF id \in DOMAIN s THEN s[id] ELSE NewRow("u1")) EXCEPT
             !.last_submitted_at = Some(last),
             !.expires_at = Some(exp),
             !.submission_count = @ + 1]
     ELSE s[i]]

\* update_submission writing the whole row back with the flag columns at
\* their defaults instead of updating three columns in place.
update_submission_overwrites_row(s, id, last, exp) ==
  [i \in DOMAIN s |->
     IF i = id
     THEN [NewRow(s[i].discord_user_id) EXCEPT
             !.last_submitted_at = Some(last),
             !.expires_at = Some(exp),
             !.submission_count = s[i].submission_count + 1]
     ELSE s[i]]

update_submission(s, id, last, exp) ==
  [i \in DOMAIN s |->
     IF i = id
     THEN [s[i] EXCEPT !.last_submitted_at = Some(last),
                       !.expires_at = Some(exp),
                       !.submission_count = @ + 1]
     ELSE s[i]]

update_auto_reregister(s, id, enabled) ==
  [i \in DOMAIN s |->
     IF i = id THEN [s[i] EXCEPT !.auto_reregister = enabled] ELSE s[i]]

\* update_active_status switching auto re-registration off together with
\* the registration.
update_active_status_clears_auto(s, id, active) ==
  [i \in DOMAIN s |->
     IF i = id
     THEN [s[i] EXCEPT !.is_active = active,
                       !.auto_reregister = @ /\ active]
     ELSE s[i]]

update_active_status(s, id, active) ==
  [i \in DOMAIN s |->
     IF i = id THEN [s[i] EXCEPT !.is_active = active] ELSE s[i]]

delete(s, id) == [i \in (DOMAIN s) \ {id} |-> s[i]]

\* datetime.timestamp() of a naive datetime reads it as local time: with
\* the process tz hours east of UTC the epoch value is tz hours smaller.
Timestamp(dt, tz) == dt - tz

\* extract(epoch from <timestamp without time zone>) is the nominal epoch.
ExtractEpoch(dt) == dt

\* get_expiring_soon with the `expires_at IS NOT NULL` condition turned
\* into an alternative: rows without an expiry are returned too.
get_expiring_soon_null_expiry(s, nowv, tz, hours_before) ==
  LET threshold == Timestamp(nowv, tz) + hours_before
      hit(i) == \/ s[i].expires_at = None
                \/ /\ Val(s[i].expires_at) > nowv
                   /\ ExtractEpoch(Val(s[i].expires_at)) <= threshold
      ids == SetToSortedSeq({i \in DOMAIN s : hit(i)})
  IN [k \in 1..Len(ids) |-> from_row(ids[k], s[ids[k]])]

get_expiring_soon(s, nowv, tz, hours_before) ==
  LET threshold == Timestamp(nowv, tz) + hours_before
      hit(i) == /\ s[i].expires_at # None
                /\ Val(s[i].expires_at) > nowv
                /\ ExtractEpoch(Val(s[i].expires_at)) <= threshold
      ids == SetToSortedSeq({i \in DOMAIN s : hit(i)})
  IN [k \in 1..Len(ids) |-> from_row(ids[k], s[ids[k]])]

\* get_active_with_auto_reregister with the is_active condition left out.
get_active_with_auto_reregister_any_status(s) ==
  LET ids == SetToSortedSeq({i \in DOMAIN s : s[i].auto_reregister})
  IN [k \in 1..Len(ids) |-> from_row(ids[k], s[ids[k]])]

get_active_with_auto_reregister(s) ==
  LET ids == SetToSortedSeq({i \in DOMAIN s :
                               s[i].is_active /\ s[i].auto_reregister})
  IN [k \in 1..Len(ids) |-> from_row(ids[k], s[ids[k]])]

\* --------------------------------------------------------------- service
\* record_submission with the expiry taken from the renewal interval
\* instead of the validity window.
record_submission_short_expiry(s, id, nowv) ==
  LET expires_at == nowv + LongStep
      s2 == update_submission(s, id, nowv, expires_at)
      registration == get_by_id(s2, id)
  IN [store |-> s2,
      raised |-> registration = None,
      registration |-> registration]

\* record_submission: the update, then the re-read; a missing row makes
\* the re-read return None and the method raise ValueError.
record_submission(s, id, nowv) ==
  LET expires_at == nowv + ValidityHours
      s2 == update_submission(s, id, nowv, expires_at)
      registration == get_by_id(s2, id)
  IN [store |-> s2,
      raised |-> registration = None,
      registration |-> registration]

toggle_auto_reregister(s, id, enabled) ==
  LET s2 == update_auto_reregister(s, id, enabled)
  IN [store |-> s2, raised |-> get_by_id(s2, id) = None]

set_active_status(s, id, active) ==
  LET s2 == update_active_status(s, id, active)
  IN [store |-> s2, raised |-> get_by_id(s2, id) = None]

get_expiring_registrations(s, nowv, tz, hours_before) ==
  get_expiring_soon(s, nowv, tz, hours_before)

\* get_registrations_for_auto_reregister keeping only registrations that
\* have not expired yet.
get_registrations_for_auto_reregister_future_only(s, nowv, hours_before_expiry) ==
  LET active_auto == get_active_with_auto_reregister(s)
      threshold == nowv + hours_before_expiry
  IN SelectSeq(active_auto,
               LAMBDA reg : reg.expires_at # None
                            /\ Val(reg.expires_at) > nowv
                            /\ Val(reg.expires_at) <= threshold)

get_registrations_for_auto_reregister(s, nowv, hours_before_expiry) ==
  LET active_auto == get_active_with_auto_reregister(s)
      threshold == nowv + hours_before_expiry
  IN SelectSeq(active_auto,
               LAMBDA reg : reg.expires_at # None
                            /\ Val(reg.expires_at) <= threshold)

\* verify_ownership without the comparison of the user ids: any user owns
\* any registration that exists.
verify_ownership_any_user(s, id, u) ==
  get_by_id(s, id) # None

verify_ownership(s, id, u) ==
  LET registration == get_by_id(s, id)
  IN IF registration = None THEN FALSE
     ELSE Val(registration).discord_user_id = u

\* ----------------------------------------------------------- integration
\* What ParkingRegistrationIntegration.submit_registration returns when its
\* coroutine runs to completion: (True, ...) after all four steps, else
\* (False, diagnostic).
SubmitResults ==
  {[success |-> TRUE, message |-> "Registration submitted successfully"],
   [success |-> FALSE, message |-> "timeout"]}

\* What the portal does to one run of submit_registration: whether the
\* browser starts (async_playwright, launch, new_page), whether the page
\* loads, what each of the four steps meets, whether the browser closes.
\* A step meets "ok", a page that refuses it ("rejected": error alert) or
\* an exception inside the step ("raise": timeout, missing field).
StepOutcomes == {"ok", "rejected", "raise"}

PortalRuns ==
  [launch : {"ok", "raise"},
   goto : {"ok", "raise"},
   code : StepOutcomes,
   permit : StepOutcomes,
   form : StepOutcomes,
   submit : StepOutcomes,
   close : {"ok", "raise"}]

\* The four step helpers: each body is one try/except Exception that
\* returns (True, ...) at its end and (False, diagnostic) otherwise.
enter_registration_code(o) ==
  IF o = "ok" THEN [success |-> TRUE, message |-> "Code verified"]
  ELSE IF o = "rejected"
  THEN [success |-> FALSE, message |-> "Verification failed"]
  ELSE [success |-> FALSE, message |-> "Failed to enter registration code"]

select_permit_type(o) ==
  IF o = "ok" THEN [success |-> TRUE, message |-> "Permit type selected"]
  ELSE [success |-> FALSE, message |-> "Failed to select permit type"]

fill_registration_form(o) ==
  IF o = "ok" THEN [success |-> TRUE, message |-> "Form filled successfully"]
  ELSE [success |-> FALSE, message |-> "Failed to fill form"]

submit_form(o) ==
  IF o = "ok"
  THEN [success |-> TRUE, message |-> "Form filled and ready for submission"]
  ELSE [success |-> FALSE, message |-> "Failed to submit form"]

\* submit_registration with the outer `except Exception` left out: an
\* exception of the launch or of browser.close() leaves the coroutine.
submit_registration_no_outer_except(run) ==
  LET s1 == enter_registration_code(run.code)
      s2 == select_permit_type(run.permit)
      s3 == fill_registration_form(run.form)
      s4 == submit_form(run.submit)
      inner ==
        IF run.goto = "raise"
        THEN [success |-> FALSE, message |-> "Submission error"]
        ELSE IF ~s1.success THEN s1
        ELSE IF ~s2.success THEN s2
        ELSE IF ~s3.success THEN s3
        ELSE IF ~s4.success THEN s4
        ELSE [success |-> TRUE,
              message |-> "Registration submitted successfully"]
  IN IF run.launch = "raise" \/ run.close = "raise"
     THEN [raised |-> TRUE, success |-> FALSE, message |-> ""]
     ELSE [raised |-> FALSE, success |-> inner.success,
           message |-> inner.message]

\* The body of the coroutine submit_registration.  The inner try converts
\* an exception of page.goto; its finally closes the browser, and an
\* exception of that close replaces whatever the try was returning; the
\* outer try converts it and an exception of the launch.
submit_registration(run) ==
  LET s1 == enter_registration_code(run.code)
      s2 == select_permit_type(run.permit)
      s3 == fill_registration_form(run.form)
      s4 == submit_form(run.submit)
      inner ==
        IF run.goto = "raise"
        THEN [success |-> FALSE, message |-> "Submission error"]
        ELSE IF ~s1.success THEN s1
        ELSE IF ~s2.success THEN s2
        ELSE IF ~s3.success THEN s3
        ELSE IF ~s4.success THEN s4
        ELSE [success |-> TRUE,
              message |-> "Registration submitted successfully"]
  IN IF run.launch = "raise" \/ run.close = "raise"
     THEN [raised |-> FALSE, success |-> FALSE, message |-> "Browser error"]
     ELSE [raised |-> FALSE, success |-> inner.success,
           message |-> inner.message]

\* `success, message = await self.integration.submit_registration(reg)`:
\* the coroutine runs, the portal is contacted, the tuple is unpacked.
submit_registration_awaited(result) ==
  [raised |-> FALSE, error |-> "", contacted |-> TRUE,
   success |-> result.success, message |-> result.message]

\* `success, message = self.integration.submit_registration(reg)` with no
\* await: the call only builds the coroutine object, which never runs, and
\* unpacking it raises TypeError whatever the portal would have answered.
submit_registration_unawaited(result) ==
  [raised |-> TRUE, error |-> "cannot unpack non-iterable coroutine object",
   contacted |-> FALSE, success |-> FALSE, message |-> ""]

\* -------------------------------------------------------------- notifier
\* "not_found": fetch_user yields no user; "forbidden": the user has
\* direct messages disabled; "error": any other exception.
DmOutcomes == {"sent", "not_found", "forbidden", "error"}

\* send_dm returning True from its Forbidden handler.
send_dm_forbidden_is_true(outcome) ==
  [raised |-> FALSE, delivered |-> outcome \in {"sent", "forbidden"}]

\* send_dm with its catch-all `except Exception` left out: an error other
\* than Forbidden reaches the caller.
send_dm_propagates(outcome) ==
  [raised |-> outcome = "error", delivered |-> outcome = "sent"]

\* send_dm: True after user.send, False for Forbidden and for any other
\* exception; nothing is raised into the caller.
send_dm(outcome) == [raised |-> FALSE, delivered |-> outcome = "sent"]

Note(kind, reg, expires_at, submission_count, error, dm) ==
  [raised |-> send_dm(dm).raised,
   note |-> [kind |-> kind,
             to |-> reg.discord_user_id,
             id |-> reg.id,
             expires_at |-> expires_at,
             submission_count |-> submission_count,
             error |-> error,
             delivered |-> send_dm(dm).delivered]]

notify_expiring_soon(reg, dm) ==
  Note("expiring_soon", reg, reg.expires_at, None, <<>>, dm)

notify_auto_reregister_success(reg, dm) ==
  Note("auto_reregister_success", reg, reg.expires_at,
       Some(reg.submission_count), <<>>, dm)

notify_auto_reregister_failed(reg, error, dm) ==
  Note("auto_reregister_failed", reg, None, None, error, dm)

notify_expired(reg, dm) ==
  Note("expired", reg, None, None, <<>>, dm)

\* ------------------------------------------------------------- scheduler
\* f"System error: {e!s}"
SystemError(e) == <<"System error: ", e>>

\* ProcessCandidate switching auto re-registration off for a candidate
\* whose renewal failed.
ProcessCandidate_failure_clears_auto(s, nowv, reg, portal, dm1, dm2) ==
  LET call == submit_registration_unawaited(portal)
      n == notify_auto_reregister_failed(reg, SystemError(call.error), dm2)
  IN [store |-> toggle_auto_reregister(s, reg.id, FALSE).store,
      notes |-> <<n.note>>,
      aborted |-> n.raised, contacted |-> call.contacted,
      persisted |-> FALSE]

\* ProcessCandidate removing the row of a candidate whose renewal failed.
ProcessCandidate_deletes_on_failure(s, nowv, reg, portal, dm1, dm2) ==
  LET call == submit_registration_unawaited(portal)
      n == notify_auto_reregister_failed(reg, SystemError(call.error), dm2)
  IN [store |-> delete(s, reg.id), notes |-> <<n.note>>,
      aborted |-> n.raised, contacted |-> call.contacted,
      persisted |-> FALSE]

\* Body of the per-candidate try/except of auto_reregister_active for the
\* fetched DTO reg.  portal is what the Submission Client answers if it is
\* run; dm1 and dm2 are the delivery outcomes of the notification in the
\* try body and of the one in the except handler.
ProcessCandidate(s, nowv, reg, portal, dm1, dm2) ==
  LET call == submit_registration_unawaited(portal)
      rec == record_submission(s, reg.id, nowv)
      n_ok == notify_auto_reregister_success(Val(rec.registration), dm1)
      n_fail == notify_auto_reregister_failed(reg, <<call.message>>, dm1)
      handler(e, s2, earlier, persisted) ==
        LET n == notify_auto_reregister_failed(reg, SystemError(e), dm2)
        IN [store |-> s2, notes |-> earlier \o <<n.note>>,
            aborted |-> n.raised, contacted |-> call.contacted,
            persisted |-> persisted]
  IN IF call.raised THEN handler(call.error, s, <<>>, FALSE)
     ELSE IF call.success
     THEN IF rec.raised
          THEN handler("Registration not found", rec.store, <<>>, FALSE)
          ELSE IF n_ok.raised
          THEN handler("send failed", rec.store, <<n_ok.note>>, TRUE)
          ELSE [store |-> rec.store, notes |-> <<n_ok.note>>,
                aborted |-> FALSE, contacted |-> call.contacted,
                persisted |-> TRUE]
     ELSE IF n_fail.raised
          THEN handler("send failed", s, <<n_fail.note>>, FALSE)
          ELSE [store |-> s, notes |-> <<n_fail.note>>,
                aborted |-> FALSE, contacted |-> call.contacted,
                persisted |-> FALSE]

\* Body of the loop of check_expiring_registrations for the fetched DTO.
ProcessExpiring(reg, dm) ==
  IF reg.auto_reregister /\ reg.is_active
  THEN [notes |-> <<>>, aborted |-> FALSE, skipped |-> TRUE]
  ELSE LET n == notify_expiring_soon(reg, dm)
       IN [notes |-> <<n.note>>, aborted |-> n.raised, skipped |-> FALSE]

\* ----------------------------------------------------------------- state
VARIABLES
  store,        \* registrations table: id -> row
  nextId,       \* next autoincrement id
  now,          \* wall clock, hours
  ticks,        \* number of clock steps taken
  inflight,     \* ids whose submission a command handler is awaiting
  autoPc,       \* auto_reregister_active: "idle", "processing",
                \* "fetch_failed", "aborted"
  autoCands,    \* its fetched DTO list
  autoIdx,      \* index of the next candidate of the for loop
  autoLast,     \* what the latest iteration of this run did (None before)
  autoOk,       \* ids of this run whose row existed and whose portal
                \* answer was success
  autoPersisted,\* ids of this run whose submission was recorded
  notifPc,      \* check_expiring_registrations: same states
  notifCands,
  notifIdx,
  notifLast,
  notifTz,      \* hours the process clock was east of UTC at the fetch
  attempts,     \* id -> number of portal runs for it that returned success
  callIn,       \* a boundary operation called on its own: its arguments
  callOut       \* and what it gave back (None while it has not returned)

vars == <<store, nextId, now, ticks, inflight,
          autoPc, autoCands, autoIdx, autoLast, autoOk, autoPersisted,
          notifPc, notifCands, notifIdx, notifLast, notifTz,
          attempts, callIn, callOut>>

autoVars == <<autoPc, autoCands, autoIdx, autoLast, autoOk, autoPersisted>>
notifVars == <<notifPc, notifCands, notifIdx, notifLast, notifTz>>
callVars == <<callIn, callOut>>

EmptyStore == [i \in {} |-> NewRow("u1")]

Init ==
  /\ store = EmptyStore
  /\ nextId = 1
  /\ now = 0
  /\ ticks = 0
  /\ inflight = {}
  /\ autoPc = "idle" /\ autoCands = <<>> /\ autoIdx = 1 /\ autoLast = None
  /\ autoOk = {} /\ autoPersisted = {}
  /\ notifPc = "idle" /\ notifCands = <<>> /\ notifIdx = 1
  /\ notifLast = None /\ notifTz = 0
  /\ attempts = [i \in Ids |-> 0]
  /\ callIn = None /\ callOut = None

\* --------------------------------------------------------------- actions
\* Handlers and jobs are coroutines of one event loop: another coroutine
\* runs only while the current one is suspended in an await.  A job is
\* first suspended in the notification of its first candidate, so nothing
\* comes between its fetch and that candidate.  A step of another
\* coroutine that touches nothing the suspended job will read again
\* commutes with the rest of the job and is taken after it: the
\* notification job reads only its fetched list, the renewal job reads the
\* rows of the candidates it has not processed yet.
FetchOutcomes == {"ok", "raises"}

SweepIdle == autoPc = "idle" /\ notifPc = "idle"

CanRun(id) ==
  \/ SweepIdle
  \/ /\ autoPc = "processing"
     /\ autoIdx >= 2
     /\ \E k \in autoIdx..Len(autoCands) : autoCands[k].id = id

\* The clock moves between jobs and between command handlers: a handler or
\* a sweep run is short against the one-hour grain of the clock.
Tick ==
  /\ SweepIdle /\ inflight = {}
  /\ ticks < MaxTicks
  /\ now' = IF now = 0 THEN LongStep ELSE now + 1
  /\ ticks' = ticks + 1
  /\ UNCHANGED <<callVars, attempts, store, nextId, inflight, autoVars, notifVars>>

\* VisitInfoModal.on_submit up to its await of submit_registration.
Intake ==
  /\ SweepIdle
  /\ nextId \in Ids
  /\ store' = [i \in (DOMAIN store) \cup {nextId} |->
                IF i = nextId THEN NewRow(IntakeUser(nextId)) ELSE store[i]]
  /\ nextId' = nextId + 1
  /\ inflight' = inflight \cup {nextId}
  /\ UNCHANGED <<callVars, attempts, now, ticks, autoVars, notifVars>>

\* /resubmit up to its await of submit_registration.
\* A failed ownership test ends the handler with a reply and no change.
ResubmitBy(u, id) ==
  /\ CanRun(id)
  /\ IF verify_ownership(store, id, u)
     THEN /\ id \notin inflight
          /\ store[id].submission_count < MaxCount
          /\ inflight' = inflight \cup {id}
     ELSE inflight' = inflight
  /\ UNCHANGED <<callVars, attempts, store, nextId, now, ticks, autoVars, notifVars>>

Resubmit == \E u \in Users, id \in Ids : ResubmitBy(u, id)

\* SubmitReturns without the `if success:` test: the handler records the
\* submission whatever the portal answered.
SubmitReturns_records_any_result ==
  /\ \E id \in inflight, result \in SubmitResults :
       LET call == submit_registration_awaited(result)
       IN /\ CanRun(id)
          /\ inflight' = inflight \ {id}
          /\ store' = record_submission(store, id, now).store
          /\ attempts' = IF call.contacted /\ call.success
                         THEN [attempts EXCEPT ![id] = @ + 1]
                         ELSE attempts
  /\ UNCHANGED <<callVars, nextId, now, ticks, autoVars, notifVars>>

\* The awaited submit_registration of a command handler returns; on
\* success the handler calls record_submission, whose ValueError for a
\* vanished row is caught by the handler's except.
SubmitReturns ==
  /\ \E id \in inflight, result \in SubmitResults :
       LET call == submit_registration_awaited(result)
       IN /\ CanRun(id)
          /\ inflight' = inflight \ {id}
          /\ store' = IF call.success
                      THEN record_submission(store, id, now).store
                      ELSE store
          /\ attempts' = IF call.contacted /\ call.success
                         THEN [attempts EXCEPT ![id] = @ + 1]
                         ELSE attempts
  /\ UNCHANGED <<callVars, nextId, now, ticks, autoVars, notifVars>>

ActivateBy(u, id) ==
  /\ CanRun(id)
  /\ IF verify_ownership(store, id, u)
     THEN store' = set_active_status(store, id, TRUE).store
     ELSE store' = store
  /\ UNCHANGED <<callVars, attempts, nextId, now, ticks, inflight, autoVars, notifVars>>

Activate == \E u \in Users, id \in Ids : ActivateBy(u, id)

DeactivateBy(u, id) ==
  /\ CanRun(id)
  /\ IF verify_ownership(store, id, u)
     THEN store' = set_active_status(store, id, FALSE).store
     ELSE store' = store
  /\ UNCHANGED <<callVars, attempts, nextId, now, ticks, inflight, autoVars, notifVars>>

Deactivate == \E u \in Users, id \in Ids : DeactivateBy(u, id)

ToggleAutoBy(u, id, enabled) ==
  /\ CanRun(id)
  /\ IF verify_ownership(store, id, u)
     THEN store' = toggle_auto_reregister(store, id, enabled).store
     ELSE store' = store
  /\ UNCHANGED <<callVars, attempts, nextId, now, ticks, inflight, autoVars, notifVars>>

ToggleAuto ==
  \E u \in Users, id \in Ids, enabled \in BOOLEAN : ToggleAutoBy(u, id, enabled)

DeleteRegistration ==
  /\ \E id \in DOMAIN store : CanRun(id) /\ store' = delete(store, id)
  /\ UNCHANGED <<callVars, attempts, nextId, now, ticks, inflight, autoVars, notifVars>>

\* auto_reregister_active: the fetch.  The two jobs touch only their own
\* locals and the table, so a run of one is taken while the other is idle.
\* The service call raises when the database cannot be reached; the run is
\* then in its outer except handler ("fetch_failed"), from where it
\* returns.
AutoFetch_failure_escapes ==
  /\ autoPc = "idle" /\ notifPc = "idle"
  /\ \E fetch \in FetchOutcomes :
       IF fetch = "ok"
       THEN /\ autoPc' = "processing"
            /\ autoCands' = get_registrations_for_auto_reregister(
                              store, now, AutoReregisterWindowHours)
       ELSE /\ autoPc' = "aborted"
            /\ autoCands' = <<>>
  /\ autoIdx' = 1
  /\ autoLast' = None
  /\ autoOk' = {} /\ autoPersisted' = {}
  /\ UNCHANGED <<callVars, attempts, store, nextId, now, ticks, inflight, notifVars>>

AutoFetch ==
  /\ autoPc = "idle" /\ notifPc = "idle"
  /\ \E fetch \in FetchOutcomes :
       IF fetch = "ok"
       THEN /\ autoPc' = "processing"
            /\ autoCands' = get_registrations_for_auto_reregister(
                              store, now, AutoReregisterWindowHours)
       ELSE /\ autoPc' = "fetch_failed"
            /\ autoCands' = <<>>
  /\ autoIdx' = 1
  /\ autoLast' = None
  /\ autoOk' = {} /\ autoPersisted' = {}
  /\ UNCHANGED <<callVars, attempts, store, nextId, now, ticks, inflight, notifVars>>

\* auto_reregister_active: one iteration of the for loop.
AutoProcess ==
  /\ autoPc = "processing"
  /\ autoIdx <= Len(autoCands)
  /\ \E portal \in SubmitResults, dm1 \in DmOutcomes, dm2 \in DmOutcomes :
       LET reg == autoCands[autoIdx]
           r == ProcessCandidate(store, now, reg, portal, dm1, dm2)
       IN /\ store' = r.store
          /\ autoLast' = Some([id |-> reg.id, portal |-> portal,
                               before |-> get_by_id(store, reg.id),
                               after |-> get_by_id(r.store, reg.id),
                               others |-> \A i \in (DOMAIN store) \ {reg.id} :
                                            i \in DOMAIN r.store
                                            /\ r.store[i] = store[i],
                               at |-> now,
                               notes |-> r.notes,
                               contacted |-> r.contacted,
                               persisted |-> r.persisted])
          /\ autoOk' = IF portal.success /\ reg.id \in DOMAIN store
                      THEN autoOk \cup {reg.id} ELSE autoOk
          /\ autoPersisted' = IF r.persisted
                             THEN autoPersisted \cup {reg.id}
                             ELSE autoPersisted
          /\ autoPc' = IF r.aborted THEN "aborted" ELSE "processing"
          /\ attempts' = IF r.contacted /\ portal.success
                         THEN [attempts EXCEPT ![reg.id] = @ + 1]
                         ELSE attempts
  /\ autoIdx' = autoIdx + 1
  /\ UNCHANGED <<callVars, nextId, now, ticks, inflight, autoCands, notifVars>>

\* auto_reregister_active: the loop is exhausted and the job returns.
AutoReturn ==
  /\ \/ autoPc = "processing" /\ autoIdx > Len(autoCands)
     \/ autoPc = "fetch_failed"
  /\ autoPc' = "idle"
  /\ autoCands' = <<>> /\ autoIdx' = 1 /\ autoLast' = None
  /\ autoOk' = {} /\ autoPersisted' = {}
  /\ UNCHANGED <<callVars, attempts, store, nextId, now, ticks, inflight, notifVars>>

\* check_expiring_registrations: the fetch.
NotifFetch ==
  /\ notifPc = "idle" /\ autoPc = "idle"
  /\ \E fetch \in FetchOutcomes :
       IF fetch = "ok"
       THEN /\ notifPc' = "processing"
            /\ \E tz \in TzOffsets :
                 /\ notifTz' = tz
                 /\ notifCands' = get_expiring_registrations(
                                    store, now, tz, NotificationWindowHours)
       ELSE /\ notifPc' = "fetch_failed"
            /\ notifTz' = 0
            /\ notifCands' = <<>>
  /\ notifIdx' = 1
  /\ notifLast' = None
  /\ UNCHANGED <<callVars, attempts, store, nextId, now, ticks, inflight, autoVars>>

\* NotifProcess taking a warned registration out of service once its
\* warning is delivered.
NotifProcess_deactivates ==
  /\ notifPc = "processing"
  /\ notifIdx <= Len(notifCands)
  /\ \E dm \in DmOutcomes :
       LET reg == notifCands[notifIdx]
           r == ProcessExpiring(reg, dm)
       IN /\ notifLast' = Some([id |-> reg.id, skipped |-> r.skipped,
                                notes |-> r.notes])
          /\ notifPc' = IF r.aborted THEN "aborted" ELSE "processing"
          /\ store' = IF ~r.skipped /\ r.notes[1].delivered
                      THEN set_active_status(store, reg.id, FALSE).store
                      ELSE store
  /\ notifIdx' = notifIdx + 1
  /\ UNCHANGED <<callVars, attempts, nextId, now, ticks, inflight, autoVars,
                 notifCands, notifTz>>

\* check_expiring_registrations: one iteration of the for loop.
NotifProcess ==
  /\ notifPc = "processing"
  /\ notifIdx <= Len(notifCands)
  /\ \E dm \in DmOutcomes :
       LET reg == notifCands[notifIdx]
           r == ProcessExpiring(reg, dm)
       IN /\ notifLast' = Some([id |-> reg.id, skipped |-> r.skipped,
                                notes |-> r.notes])
          /\ notifPc' = IF r.aborted THEN "aborted" ELSE "processing"
  /\ notifIdx' = notifIdx + 1
  /\ UNCHANGED <<callVars, attempts, store, nextId, now, ticks, inflight, autoVars,
                 notifCands, notifTz>>

NotifReturn ==
  /\ \/ notifPc = "processing" /\ notifIdx > Len(notifCands)
     \/ notifPc = "fetch_failed"
  /\ notifPc' = "idle"
  /\ notifCands' = <<>> /\ notifIdx' = 1 /\ notifLast' = None
  /\ notifTz' = 0
  /\ UNCHANGED <<callVars, attempts, store, nextId, now, ticks, inflight, autoVars>>

Next ==
  \/ Tick
  \/ Intake
  \/ Resubmit
  \/ SubmitReturns
  \/ Activate
  \/ Deactivate
  \/ ToggleAuto
  \/ DeleteRegistration
  \/ AutoFetch
  \/ AutoProcess
  \/ AutoReturn
  \/ NotifFetch
  \/ NotifProcess
  \/ NotifReturn

Spec == Init /\ [][Next]_vars

\* The event loop resumes a job at each completed await, so a run that has
\* fetched keeps taking its loop iterations and then returns.
FairSpec ==
  /\ Spec
  /\ WF_vars(AutoProcess) /\ WF_vars(AutoReturn)
  /\ WF_vars(NotifProcess) /\ WF_vars(NotifReturn)

\* ---------------------------------------------- boundary operations alone
\* The Submission Client and the Notification Channel called on their own,
\* once per call, over every course the portal or the delivery can take.
NotifyOps ==
  {"notify_expiring_soon", "notify_auto_reregister_success",
   "notify_auto_reregister_failed", "notify_expired"}

CallRegs ==
  {from_row(1, NewRow("u1")),
   from_row(2, update_submission(
                 [i \in {2} |-> NewRow("u2")], 2, 0, ValidityHours)[2])}

Calls ==
  [op : {"submit_registration"}, run : PortalRuns,
   reg : {from_row(1, NewRow("u1"))}, dm : {"sent"}]
  \cup
  [op : NotifyOps,
   run : {[launch |-> "ok", goto |-> "ok", code |-> "ok", permit |-> "ok",
           form |-> "ok", submit |-> "ok", close |-> "ok"]},
   reg : CallRegs, dm : DmOutcomes]

BoundaryInit ==
  /\ store = EmptyStore
  /\ nextId = 1
  /\ now = 0
  /\ ticks = 0
  /\ inflight = {}
  /\ autoPc = "idle" /\ autoCands = <<>> /\ autoIdx = 1 /\ autoLast = None
  /\ autoOk = {} /\ autoPersisted = {}
  /\ notifPc = "idle" /\ notifCands = <<>> /\ notifIdx = 1
  /\ notifLast = None /\ notifTz = 0
  /\ attempts = [i \in Ids |-> 0]
  /\ callIn \in {Some(c) : c \in Calls}
  /\ callOut = None

mainVars == <<store, nextId, now, ticks, inflight, autoVars, notifVars,
              attempts>>

\* await integration.submit_registration(registration)
CallSubmit ==
  /\ callIn # None /\ callOut = None
  /\ Val(callIn).op = "submit_registration"
  /\ callOut' = Some(submit_registration(Val(callIn).run))
  /\ UNCHANGED <<mainVars, callIn>>

\* await notifier.notify_...(registration): what the caller gets back.
CallNotify ==
  /\ callIn # None /\ callOut = None
  /\ Val(callIn).op \in NotifyOps
  /\ LET c == Val(callIn)
         n == IF c.op = "notify_expiring_soon"
              THEN notify_expiring_soon(c.reg, c.dm)
              ELSE IF c.op = "notify_auto_reregister_success"
              THEN notify_auto_reregister_success(c.reg, c.dm)
              ELSE IF c.op = "notify_auto_reregister_failed"
              THEN notify_auto_reregister_failed(c.reg, <<"timeout">>, c.dm)
              ELSE notify_expired(c.reg, c.dm)
     IN callOut' = Some([raised |-> n.raised,
                         success |-> n.note.delivered,
                         message |-> n.note.kind])
  /\ UNCHANGED <<mainVars, callIn>>

\* The call has returned; another one is made.
CallNext ==
  /\ callOut # None
  /\ callIn' \in {Some(c) : c \in Calls}
  /\ callOut' = None
  /\ UNCHANGED mainVars

BoundaryNext ==
  \/ CallSubmit
  \/ CallNotify
  \/ CallNext

BoundarySpec == BoundaryInit /\ [][BoundaryNext]_vars

TypeOK ==
  /\ nextId \in 1..(Cardinality(Ids) + 1)
  /\ DOMAIN store \subseteq 1..(nextId - 1)
  /\ inflight \subseteq 1..(nextId - 1)
  /\ autoPc \in {"idle", "processing", "fetch_failed", "aborted"}
  /\ notifPc \in {"idle", "processing", "fetch_failed", "aborted"}

\* ---------------------------------------------------------------- claims
AutoIds == {autoCands[k].id : k \in 1..Len(autoCands)}
NotifIds == {notifCands[k].id : k \in 1..Len(notifCands)}
AutoDone == autoPc = "processing" /\ autoIdx > Len(autoCands)
NotifDone == notifPc = "processing" /\ notifIdx > Len(notifCands)
AutoFetched == autoPc = "idle" /\ autoPc' = "processing"
NotifFetched == notifPc = "idle" /\ notifPc' = "processing"

\* C1: in the auto-renewal sweep, a candidate whose row exists and whose
\* Submission Client answer is success has its row updated
\* (last_submitted_at = now, expires_at = now + 24h, submission_count + 1)
\* and its owner is then sent exactly the success notification, carrying
\* the new expiry and the cumulative count.
C1_SuccessIsPersistedAndNotified ==
  (autoLast # None /\ Val(autoLast).portal.success
     /\ Val(autoLast).before # None)
  => LET e == Val(autoLast)
         b == Val(e.before)
     IN /\ e.after # None
        /\ Val(e.after).last_submitted_at = Some(e.at)
        /\ Val(e.after).expires_at = Some(e.at + ValidityHours)
        /\ Val(e.after).submission_count = b.submission_count + 1
        /\ Len(e.notes) = 1
        /\ e.notes[1].kind = "auto_reregister_success"
        /\ e.notes[1].to = b.discord_user_id
        /\ e.notes[1].expires_at = Some(e.at + ValidityHours)
        /\ e.notes[1].submission_count = Some(b.submission_count + 1)

\* C2: in the auto-renewal sweep, a candidate whose Submission Client
\* answer is (false, message) keeps its row and every other row unchanged,
\* its owner is sent the failure notification containing that message, and
\* the sweep goes on.
C2_FailureLeavesStoreAndReportsMessage ==
  (autoLast # None /\ ~Val(autoLast).portal.success)
  => LET e == Val(autoLast)
     IN /\ e.after = e.before
        /\ e.others
        /\ autoPc = "processing"
        /\ Len(e.notes) = 1
        /\ e.notes[1].kind = "auto_reregister_failed"
        /\ \E k \in 1..Len(e.notes[1].error) :
             e.notes[1].error[k] = e.portal.message

\* C3: failure isolation: when a run over two or more candidates has gone
\* through its list, every candidate was attempted and every candidate
\* whose row existed and whose submission succeeded has been recorded,
\* whatever was raised while another candidate was processed.
C3_OthersArePersisted ==
  (AutoDone /\ Len(autoCands) >= 2)
  => /\ autoIdx = Len(autoCands) + 1
     /\ autoOk \subseteq autoPersisted

\* C4: a sweep that has fetched n candidates goes through all n of them
\* and returns to idle, whatever each candidate's outcome; no run is
\* abandoned after its fetch.
C4_SweepsRunToCompletion ==
  /\ [](autoPc # "aborted" /\ notifPc # "aborted")
  /\ \A n \in 0..Cardinality(Ids) :
       /\ (autoPc = "processing" /\ Len(autoCands) = n)
            ~> (AutoDone /\ Len(autoCands) = n)
       /\ (notifPc = "processing" /\ Len(notifCands) = n)
            ~> (NotifDone /\ Len(notifCands) = n)
  /\ AutoDone ~> (autoPc = "idle")
  /\ NotifDone ~> (notifPc = "idle")

C4_Witness ==
  /\ AutoDone
  /\ Len(autoCands) = 2
  /\ Cardinality(autoOk) = 1
  /\ ~Val(autoLast).notes[1].delivered

\* A step in which the submission of id was recorded by a command handler
\* or by the renewal job.
Recorded(id) ==
  \/ id \in inflight /\ id \notin inflight'
  \/ id \in autoPersisted' /\ id \notin autoPersisted

\* C5: submission_count of a registration never decreases, a recorded
\* submission raises it by exactly 1, nothing else changes it, and a new
\* registration starts at 0.
C5_CountGrowsByOneOnRecording ==
  [][/\ \A id \in (DOMAIN store') \ (DOMAIN store) :
          store'[id].submission_count = 0
     /\ \A id \in (DOMAIN store) \cap (DOMAIN store') :
          LET c == store[id].submission_count
              c2 == store'[id].submission_count
          IN /\ c2 >= c
             /\ (c2 # c) => (c2 = c + 1 /\ Recorded(id)
                             /\ store'[id].last_submitted_at = Some(now))
             /\ (store'[id].last_submitted_at # store[id].last_submitted_at)
                  => c2 = c + 1]_vars

C5_Witness ==
  \E id \in DOMAIN store :
    /\ store[id].submission_count >= 2
    /\ Val(store[id].last_submitted_at) > 0

\* C6: a registration with an expiry has expires_at = last_submitted_at +
\* 24 hours, and the two fields are written only together, by a recorded
\* submission, from the one instant it reads.
C6_ExpiryIsSubmissionPlusValidity ==
  /\ [](\A id \in DOMAIN store :
          store[id].expires_at # None
            => /\ store[id].last_submitted_at # None
               /\ Val(store[id].expires_at)
                    = Val(store[id].last_submitted_at) + ValidityHours)
  /\ [][\A id \in (DOMAIN store) \cap (DOMAIN store') :
          (\/ store'[id].last_submitted_at # store[id].last_submitted_at
           \/ store'[id].expires_at # store[id].expires_at)
            => /\ Recorded(id)
               /\ store'[id].last_submitted_at = Some(now)
               /\ store'[id].expires_at = Some(now + ValidityHours)]_vars

C6_Witness ==
  \E id \in DOMAIN store :
    /\ store[id].expires_at # None
    /\ Val(store[id].last_submitted_at) > 0
    /\ store[id].submission_count >= 2

\* The renewal policy as the specification words it.
NeedsAutoRenewal(row, nowv) ==
  /\ row.is_active
  /\ row.auto_reregister
  /\ row.expires_at # None
  /\ Val(row.expires_at) <= nowv + AutoReregisterWindowHours

\* C7: the list the renewal job fetches holds exactly the registrations
\* that are active, auto-managed, submitted at least once and expiring no
\* later than now + the renewal window, each as its current row; the
\* already expired ones are among them.
C7_CandidatesAreThoseNeedingRenewal ==
  [][AutoFetched =>
       /\ {autoCands'[k].id : k \in 1..Len(autoCands')}
            = {i \in DOMAIN store : NeedsAutoRenewal(store[i], now)}
       /\ \A k \in 1..Len(autoCands') :
            autoCands'[k] = from_row(autoCands'[k].id, store[autoCands'[k].id])
       /\ \A k, l \in 1..Len(autoCands') :
            autoCands'[k].id = autoCands'[l].id => k = l]_vars

C7_Witness ==
  /\ autoPc = "processing"
  /\ autoIdx = 1
  /\ \E k \in 1..Len(autoCands) : Val(autoCands[k].expires_at) < now
  /\ \E id \in DOMAIN store : id \notin AutoIds

\* C8: a registration that is not active is in no fetched candidate list,
\* and setting is_active to false takes a registration out of the
\* candidate set at once, whatever its other fields.
C8_InactiveIsNeverACandidate ==
  /\ [][AutoFetched =>
          \A id \in DOMAIN store :
            ~store[id].is_active
              => id \notin {autoCands'[k].id : k \in 1..Len(autoCands')}]_vars
  /\ [][\A id \in (DOMAIN store) \cap (DOMAIN store') :
          ~store'[id].is_active
            => \A k \in 1..Len(get_registrations_for_auto_reregister(
                              store', now', AutoReregisterWindowHours)) :
                 get_registrations_for_auto_reregister(
                   store', now', AutoReregisterWindowHours)[k].id # id]_vars

C8_Witness ==
  /\ autoPc = "processing"
  /\ autoIdx = 1
  /\ \E id \in DOMAIN store :
       /\ ~store[id].is_active
       /\ store[id].auto_reregister
       /\ store[id].expires_at # None
       /\ Val(store[id].expires_at) <= now + AutoReregisterWindowHours
       /\ id \notin AutoIds
  /\ AutoIds # {}

\* The derived predicate and the notice policy as the specification words
\* them.
IsExpiringSoon(row, nowv) ==
  /\ row.expires_at # None
  /\ 0 < Val(row.expires_at) - nowv
  /\ Val(row.expires_at) - nowv <= NotificationWindowHours

NeedsExpirationNotice(row, nowv) ==
  IsExpiringSoon(row, nowv) /\ ~(row.auto_reregister /\ row.is_active)

\* C9: the notification job warns about a registration if and only if it
\* is expiring soon and not both auto-managed and active: the fetched
\* registrations it does not skip are exactly those needing a notice, and
\* each of them is sent one expiring-soon warning.
C9_WarnedIffNoticeNeeded ==
  /\ [][NotifFetched =>
          {notifCands'[k].id : k \in {j \in 1..Len(notifCands') :
              ~(notifCands'[j].auto_reregister /\ notifCands'[j].is_active)}}
            = {i \in DOMAIN store : NeedsExpirationNotice(store[i], now)}]_vars
  /\ [](notifLast # None =>
          /\ Val(notifLast).skipped
               <=> (notifCands[notifIdx - 1].auto_reregister
                    /\ notifCands[notifIdx - 1].is_active)
          /\ ~Val(notifLast).skipped
               => /\ Len(Val(notifLast).notes) = 1
                  /\ Val(notifLast).notes[1].kind = "expiring_soon")

\* C10: is_expiring_soon is true exactly when expires_at is set and lies
\* more than 0 and at most notification_window_hours ahead, and the query
\* get_expiring_soon with that window returns exactly the registrations
\* for which it is true.
C10_QueryMatchesIsExpiringSoon ==
  /\ [](\A id \in DOMAIN store :
          is_expiring_soon(from_row(id, store[id]), now)
            <=> IsExpiringSoon(store[id], now))
  /\ [][NotifFetched =>
          {notifCands'[k].id : k \in 1..Len(notifCands')}
            = {i \in DOMAIN store :
                 is_expiring_soon(from_row(i, store[i]), now)}]_vars

\* C11: is_expired yields, for every registration, never-submitted or not,
\* a boolean that is true exactly when expires_at is null or the current
\* time has reached expires_at.
C11_IsExpiredIffNullOrPast ==
  \A id \in DOMAIN store :
    LET r == is_expired(from_row(id, store[id]), now)
    IN /\ ~r.raised
       /\ r.value <=> (\/ store[id].expires_at = None
                       \/ now >= Val(store[id].expires_at))

\* C12: no step of the expiration-notification job (fetch, loop iteration,
\* return) changes the registrations table, whether the warning of the
\* iteration is delivered or not; the table after any number of its
\* iterations and runs is the table before them.
C12_NotificationSweepLeavesStore ==
  [][(notifPc' # notifPc \/ notifIdx' # notifIdx \/ notifLast' # notifLast)
       => store' = store]_vars

C12_Witness ==
  /\ NotifDone
  /\ Len(notifCands) = 2
  /\ ~Val(notifLast).skipped
  /\ ~Val(notifLast).notes[1].delivered
  /\ \E id \in DOMAIN store :
       store[id].expires_at # None /\ store[id].is_active

\* C13: a registration whose expires_at is null is in the list neither job
\* fetches, whatever its flags, so it is neither warned about nor
\* submitted by the renewal job; its expires_at becomes non-null only when
\* a command handler (intake or /resubmit) records a submission.
C13_NeverSubmittedIsInNoSweep ==
  /\ [][(AutoFetched \/ NotifFetched) =>
          \A id \in DOMAIN store :
            store[id].expires_at = None
              => /\ id \notin {autoCands'[k].id : k \in 1..Len(autoCands')}
                 /\ id \notin {notifCands'[k].id : k \in 1..Len(notifCands')}]_vars
  /\ [](/\ \A k \in 1..Len(autoCands) : autoCands[k].expires_at # None
        /\ \A k \in 1..Len(notifCands) : notifCands[k].expires_at # None)
  /\ [][\A id \in (DOMAIN store) \cap (DOMAIN store') :
          (store[id].expires_at = None /\ store'[id].expires_at # None)
            => (id \in inflight /\ id \notin inflight')]_vars

C13_Witness ==
  /\ autoPc = "processing"
  /\ autoIdx = 2
  /\ \E id \in DOMAIN store :
       /\ store[id].expires_at = None
       /\ store[id].is_active
       /\ store[id].auto_reregister
       /\ id \notin AutoIds
       /\ id \notin inflight

\* C14: in a run of the renewal job the Submission Client makes exactly
\* one attempt for each fetched candidate: the iteration of a candidate
\* contacts the portal, and no registration is in the fetched list twice.
C14_OneAttemptPerCandidate ==
  /\ autoLast # None => Val(autoLast).contacted
  /\ \A k, l \in 1..Len(autoCands) :
       autoCands[k].id = autoCands[l].id => k = l

C16_OneNotificationPerQualifying ==
  /\ [](autoLast # None =>
          /\ Len(Val(autoLast).notes) = 1
          /\ Val(autoLast).notes[1].kind
               \in {"auto_reregister_success", "auto_reregister_failed"})
  /\ [](notifLast # None =>
          IF Val(notifLast).skipped
          THEN Val(notifLast).notes = <<>>
          ELSE /\ Len(Val(notifLast).notes) = 1
               /\ Val(notifLast).notes[1].kind = "expiring_soon")
  /\ [][NotifFetched =>
          \A i \in DOMAIN store :
            NeedsExpirationNotice(store[i], now)
              => Cardinality({k \in 1..Len(notifCands') :
                               /\ notifCands'[k].id = i
                               /\ ~(notifCands'[k].auto_reregister
                                    /\ notifCands'[k].is_active)}) = 1]_vars

\* C17: a registration that is active, auto-managed and still valid when
\* the renewal job runs is either a candidate of that run or still valid
\* when the job runs next, AutoReregisterIntervalHours later (when its
\* expiry will be inside the renewal window): no such registration lapses
\* between two runs without an attempt, whenever it was last submitted.
C17_RenewalAttemptBeforeLapse ==
  [][AutoFetched =>
       \A id \in DOMAIN store :
         (/\ store[id].is_active
          /\ store[id].auto_reregister
          /\ store[id].expires_at # None
          /\ now < Val(store[id].expires_at))
           => \/ id \in {autoCands'[k].id : k \in 1..Len(autoCands')}
              \/ Val(store[id].expires_at)
                   >= now + AutoReregisterIntervalHours]_vars

\* C18: submit_registration never raises into its caller: whatever fails
\* (browser launch, navigation, any of the four steps, browser close) it
\* returns (False, diagnostic), and it returns (True, message) only when
\* the launch, the navigation, all four steps and the close went through.
C18_SubmitNeverRaises ==
  (callOut # None /\ Val(callIn).op = "submit_registration")
  => LET run == Val(callIn).run
         out == Val(callOut)
     IN /\ ~out.raised
        /\ out.success
             <=> (/\ run.launch = "ok" /\ run.goto = "ok"
                  /\ run.code = "ok" /\ run.permit = "ok"
                  /\ run.form = "ok" /\ run.submit = "ok"
                  /\ run.close = "ok")
        /\ [success |-> out.success, message |-> out.message]
             \in (SubmitResults
                  \cup [success : {FALSE},
                        message : {"Browser error", "Submission error",
                                   "Verification failed",
                                   "Failed to enter registration code",
                                   "Failed to select permit type",
                                   "Failed to fill form",
                                   "Failed to submit form"}])

C18_Witness ==
  /\ callOut # None
  /\ Val(callIn).op = "submit_registration"
  /\ Val(callIn).run.submit = "ok"
  /\ Val(callIn).run.form = "ok"
  /\ Val(callIn).run.close = "raise"
  /\ ~Val(callOut).success

\* C19: each of the four notify operations returns True exactly when the
\* message went out and False, raising nothing into its caller, when the
\* user is not found, has direct messages disabled, or the delivery fails
\* in any other way.
C19_NotifyReturnsDelivery ==
  (callOut # None /\ Val(callIn).op \in NotifyOps)
  => /\ ~Val(callOut).raised
     /\ Val(callOut).success <=> Val(callIn).dm = "sent"

C19_Witness ==
  /\ callOut # None
  /\ Val(callIn).op = "notify_expired"
  /\ Val(callIn).dm = "forbidden"
  /\ Val(callIn).reg.expires_at # None
  /\ ~Val(callOut).success

\* C20: a run whose fetch fails handles no candidate, sends nothing and
\* writes nothing: it goes from its fetch to its outer except handler and
\* from there back to idle, its locals as before the run, so the next run
\* starts from a fresh fetch; the failure never leaves the job.
C20_FetchFailureEndsRunOnly ==
  /\ [](autoPc = "fetch_failed"
          => (autoCands = <<>> /\ autoLast = None /\ autoPersisted = {}))
  /\ [](notifPc = "fetch_failed"
          => (notifCands = <<>> /\ notifLast = None))
  /\ [](autoPc # "aborted" /\ notifPc # "aborted")
  /\ [][(\/ autoPc' = "fetch_failed" \/ autoPc = "fetch_failed"
         \/ notifPc' = "fetch_failed" \/ notifPc = "fetch_failed")
          => store' = store]_vars
  /\ [][autoPc = "fetch_failed"
          => /\ autoPc' = "idle" /\ autoCands' = <<>> /\ autoIdx' = 1
             /\ autoLast' = None]_vars
  /\ [][notifPc = "fetch_failed"
          => /\ notifPc' = "idle" /\ notifCands' = <<>> /\ notifIdx' = 1
             /\ notifLast' = None]_vars
  /\ [][(autoPc = "fetch_failed" /\ autoPc' = "idle")
          => (ENABLED AutoFetch)']_vars

C20_Witness ==
  /\ autoPc = "fetch_failed"
  /\ \E id \in DOMAIN store : NeedsAutoRenewal(store[id], now)
  /\ \E id \in DOMAIN store : ~NeedsAutoRenewal(store[id], now)


\* C21: no step of either job adds or removes a registration or changes
\* is_active or auto_reregister; the only row a step of a job can change
\* is the row of the candidate of that iteration, only when its submission
\* succeeded and was recorded, and then only in last_submitted_at,
\* expires_at and submission_count.
C21_SweepsKeepRowsAndFlags ==
  [][(\/ autoPc' # autoPc \/ autoIdx' # autoIdx
      \/ notifPc' # notifPc \/ notifIdx' # notifIdx)
       => /\ DOMAIN store' = DOMAIN store
          /\ \A id \in DOMAIN store :
               /\ store'[id].is_active = store[id].is_active
               /\ store'[id].auto_reregister = store[id].auto_reregister
               /\ store'[id].discord_user_id = store[id].discord_user_id
               /\ store'[id] # store[id]
                    => /\ autoIdx' = autoIdx + 1
                       /\ autoCands[autoIdx].id = id
                       /\ Val(autoLast').portal.success
                       /\ Val(autoLast').persisted]_vars

C21_Witness ==
  /\ autoPc = "processing"
  /\ autoIdx = 2
  /\ Len(autoCands) = 2
  /\ Val(autoLast).portal.success
  /\ Val(autoLast).notes[1].delivered
  /\ Cardinality(DOMAIN store) = 2


C24_RecordForAbsentIdChangesNothing ==
  /\ [](\A id \in Ids \ DOMAIN store :
          LET r == record_submission(store, id, now)
          IN /\ r.raised
             /\ r.registration = None
             /\ r.store = store)
  /\ [][\A id \in inflight \ DOMAIN store :
          id \notin inflight' => store' = store]_vars

C24_Witness ==
  \E id \in inflight, other \in DOMAIN store :
    /\ id \notin DOMAIN store
    /\ attempts[id] = 1
    /\ store[other].submission_count = 1


\* C25: a failed renewal heals itself: the iteration that fails leaves the
\* row of its candidate as it was, a row that needs renewal and is not
\* changed keeps needing it as time passes, every registration needing
\* renewal is in the list the next run fetches, and once a submission for
\* it is recorded it no longer needs renewal.
C25_FailedRenewalStaysCandidate ==
  /\ [](autoLast # None =>
          LET e == Val(autoLast)
          IN (~e.persisted) => (e.after = e.before /\ e.others))
  /\ [][\A id \in (DOMAIN store) \cap (DOMAIN store') :
          /\ (NeedsAutoRenewal(store[id], now) /\ store'[id] = store[id])
               => NeedsAutoRenewal(store'[id], now')
          /\ store'[id].submission_count = store[id].submission_count + 1
               => ~NeedsAutoRenewal(store'[id], now')]_vars
  /\ [][AutoFetched =>
          \A id \in DOMAIN store :
            NeedsAutoRenewal(store[id], now)
              => id \in {autoCands'[k].id : k \in 1..Len(autoCands')}]_vars

C25_Witness ==
  /\ autoPc = "processing"
  /\ autoIdx = 2
  /\ Val(autoLast).notes[1].kind = "auto_reregister_failed"
  /\ Val(autoLast).before # None
  /\ Val(autoLast).after = Val(autoLast).before
  /\ Val(Val(autoLast).before).expires_at # None
  /\ Val(Val(Val(autoLast).before).expires_at) < now
  /\ NeedsAutoRenewal(store[Val(autoLast).id], now)


\* C26: when the portal run of a candidate succeeds and recording it
\* fails, the iteration has contacted the portal, leaves the store as it
\* was, sends one failure notification carrying a system error and no
\* success notification, and the run goes on to the next candidate.
C26_PersistenceFailureIsIsolated ==
  autoLast # None =>
    LET e == Val(autoLast)
    IN (e.portal.success /\ ~e.persisted) =>
         /\ e.contacted
         /\ e.after = e.before
         /\ e.others
         /\ Len(e.notes) = 1
         /\ e.notes[1].kind = "auto_reregister_failed"
         /\ autoPc = "processing"


\* C27: when the renewal job calls the Submission Client for a candidate,
\* the registration exists and is active with auto re-registration on,
\* whatever commands ran since the list was fetched.
C27_CandidateStillEligibleWhenSubmitted ==
  autoLast # None =>
    LET e == Val(autoLast)
    IN /\ e.before # None
       /\ Val(e.before).is_active
       /\ Val(e.before).auto_reregister


\* C28: for every pair of configured windows, a registration that the
\* notification job fetches and skips because it is active with auto
\* re-registration on is, at the same instant, in the list the renewal
\* job would fetch.
C28_SkippedIsRenewalCandidate ==
  \A wn \in Windows, wa \in Windows :
    LET expiring == get_expiring_registrations(store, now, 0, wn)
        renewal == get_registrations_for_auto_reregister(store, now, wa)
    IN \A k \in 1..Len(expiring) :
         ProcessExpiring(expiring[k], "sent").skipped
           => \E l \in 1..Len(renewal) : renewal[l].id = expiring[k].id


\* C29: for every registration, submission_count is 0 exactly when
\* last_submitted_at is null and exactly when expires_at is null; a row is
\* created with count 0 and both timestamps null, and a timestamp that is
\* set is never null again while the row exists.
C29_CountAndTimestampsAgree ==
  /\ [](\A id \in DOMAIN store :
          /\ (store[id].submission_count = 0)
               <=> (store[id].last_submitted_at = None)
          /\ (store[id].submission_count = 0)
               <=> (store[id].expires_at = None))
  /\ [][\A id \in DOMAIN store' :
          IF id \in DOMAIN store
          THEN /\ store[id].last_submitted_at # None
                    => store'[id].last_submitted_at # None
               /\ store[id].expires_at # None
                    => store'[id].expires_at # None
          ELSE /\ store'[id].submission_count = 0
               /\ store'[id].last_submitted_at = None
               /\ store'[id].expires_at = None]_vars

C29_Witness ==
  /\ DOMAIN store = {1, 2}
  /\ inflight = {}
  /\ store[1].submission_count = 0
  /\ store[1].expires_at = None
  /\ store[2].submission_count = 2
  /\ store[2].last_submitted_at # None
  /\ store[2].expires_at # None


IsOwner(id, u) ==
  id \in DOMAIN store /\ store[id].discord_user_id = u

\* C30: /resubmit, /activate, /deactivate and /toggle-auto act only for
\* the owner of the registration: a command invoked by a user the row
\* does not belong to, or for an id that does not exist, starts no
\* submission and leaves every registration as it was.
C30_CommandsActOnlyForOwner ==
  [][\A u \in Users, id \in Ids :
       (/\ ~IsOwner(id, u)
        /\ \/ ResubmitBy(u, id)
           \/ ActivateBy(u, id)
           \/ DeactivateBy(u, id)
           \/ \E enabled \in BOOLEAN : ToggleAutoBy(u, id, enabled))
         => /\ store' = store
            /\ inflight' = inflight
            /\ attempts' = attempts]_vars

C30_Witness ==
  /\ DOMAIN store = {1, 2}
  /\ inflight = {}
  /\ store[1].discord_user_id # store[2].discord_user_id
  /\ store[1].is_active /\ store[1].auto_reregister
  /\ ~store[2].is_active /\ ~store[2].auto_reregister
  /\ store[2].submission_count = 0

====
